---- MODULE Spec2Model ----
(***************************************************************************)
(* Model of the geometry core of src/app.py: order_points and              *)
(* calculate_real_area.                                                     *)
(*                                                                          *)
(* Arithmetic is exact.  Pixel coordinates are integers, the A4 sheet is    *)
(* 210 x 297 (millimetres instead of 0.210 x 0.297 metres), every derived   *)
(* quantity is a reduced fraction of integers, and an area is a fraction    *)
(* <<num, den>> of square millimetres.  The float32/float64 rounding of     *)
(* numpy and OpenCV is not modelled.                                        *)
(*                                                                          *)
(* Where an intermediate value is used several times it is bound by         *)
(* "x \in {e}" (CHOOSE r \in {f(x) : x \in {e}} : TRUE is f(e)), so that it  *)
(* is computed once, like a local variable of the program.                  *)
(***************************************************************************)
EXTENDS Integers, Sequences, FiniteSets

VARIABLES pc, paper_pts, floor_pts, paper_rect, floor_rect, matrix,
          floor_poly_real, area_sq_meters

vars == <<pc, paper_pts, floor_pts, paper_rect, floor_rect, matrix,
          floor_poly_real, area_sq_meters>>

(***************************************************************************)
(* Bounds of the model.                                                     *)
(***************************************************************************)
MaxCoord == 2
PairCoord == 1
MaxPoints == 5
MaxDim == 4
MaxScale == 3

(***************************************************************************)
(* Integer helpers.                                                         *)
(***************************************************************************)
Abs(n) == IF n < 0 THEN -n ELSE n

RECURSIVE GCD(_, _)
GCD(a, b) == IF b = 0 THEN Abs(a) ELSE GCD(b, a % Abs(b))

(* A fraction <<n, d>> in lowest terms with d > 0. *)
Frac(n, d) ==
    CHOOSE r \in {<<n \div s, d \div s>> :
                     s \in {IF d < 0 THEN -g ELSE g : g \in {GCD(n, d)}}} : TRUE

FracAdd(p, q) ==
    CHOOSE r \in
        {Frac(p[1] * (q[2] \div g) + q[1] * (p[2] \div g), p[2] * (q[2] \div g)) :
            g \in {GCD(p[2], q[2])}} : TRUE

(***************************************************************************)
(* numpy: argmin / argmax scan the vector once and keep the first extremum. *)
(***************************************************************************)
(* Variant: the scan keeps the last minimum instead of the first. *)
RECURSIVE ArgMinFromLast(_, _, _)
ArgMinFromLast(v, i, best) ==
    IF i > Len(v) THEN best
    ELSE ArgMinFromLast(v, i + 1, IF v[i] <= v[best] THEN i ELSE best)

RECURSIVE ArgMinFrom(_, _, _)
ArgMinFrom(v, i, best) ==
    IF i > Len(v) THEN best
    ELSE ArgMinFrom(v, i + 1, IF v[i] < v[best] THEN i ELSE best)

ArgMin(v) == ArgMinFrom(v, 2, 1)

RECURSIVE ArgMaxFrom(_, _, _)
ArgMaxFrom(v, i, best) ==
    IF i > Len(v) THEN best
    ELSE ArgMaxFrom(v, i + 1, IF v[i] > v[best] THEN i ELSE best)

ArgMax(v) == ArgMaxFrom(v, 2, 1)

(* pts.sum(axis=1) and np.diff(pts, axis=1): x + y and y - x of each row. *)
SumAxis1(pts) == [i \in 1..Len(pts) |-> pts[i][1] + pts[i][2]]

(* Variant: the difference taken as x - y. *)
DiffAxis1Reversed(pts) == [i \in 1..Len(pts) |-> pts[i][1] - pts[i][2]]

DiffAxis1(pts) == [i \in 1..Len(pts) |-> pts[i][2] - pts[i][1]]

(* order_points: rect[0], rect[1], rect[2], rect[3] of the source are       *)
(* positions 1, 2, 3, 4 here.                                               *)
order_points(pts) ==
    CHOOSE rect \in
        {<<pts[ArgMin(s)], pts[ArgMin(diff)], pts[ArgMax(s)], pts[ArgMax(diff)]>> :
            s \in {SumAxis1(pts)}, diff \in {DiffAxis1(pts)}} : TRUE

(***************************************************************************)
(* 3x3 integer linear algebra on homogeneous coordinates.                   *)
(***************************************************************************)
Hom(p) == <<p[1], p[2], 1>>

Cross(a, b) == <<a[2] * b[3] - a[3] * b[2],
                 a[3] * b[1] - a[1] * b[3],
                 a[1] * b[2] - a[2] * b[1]>>

Dot(a, b) == a[1] * b[1] + a[2] * b[2] + a[3] * b[3]

Det3(a, b, c) == Dot(a, Cross(b, c))

Collinear(a, b, c) == Det3(Hom(a), Hom(b), Hom(c)) = 0

(* v divided by the gcd of its three entries (v itself when it is zero). *)
Primitive(v) ==
    CHOOSE r \in {IF g = 0 THEN v ELSE <<v[1] \div g, v[2] \div g, v[3] \div g>> :
                     g \in {GCD(GCD(v[1], v[2]), v[3])}} : TRUE

(* The matrix with columns l1*q1, l2*q2, l3*q3 that sends the projective    *)
(* frame e1, e2, e3, e1+e2+e3 to the four points q (Cramer's rule for       *)
(* [q1 q2 q3] l = q4, l taken up to a common factor).                       *)
Basis(q) ==
    LET a == Hom(q[1])
        b == Hom(q[2])
        c == Hom(q[3])
        d == Hom(q[4])
    IN  CHOOSE r \in
            {<<<<l[1] * a[1], l[2] * b[1], l[3] * c[1]>>,
               <<l[1] * a[2], l[2] * b[2], l[3] * c[2]>>,
               <<l[1] * a[3], l[2] * b[3], l[3] * c[3]>>>> :
                l \in {Primitive(v) :
                    v \in {<<Det3(d, b, c), Det3(a, d, c), Det3(a, b, d)>>}}} : TRUE

Adjugate(m) ==
    LET c1 == Cross(m[2], m[3])
        c2 == Cross(m[3], m[1])
        c3 == Cross(m[1], m[2])
    IN  <<<<c1[1], c2[1], c3[1]>>,
          <<c1[2], c2[2], c3[2]>>,
          <<c1[3], c2[3], c3[3]>>>>

(* m divided by the gcd of its nine entries (m itself when it is zero). *)
PrimitiveMatrix(m) ==
    CHOOSE r \in
        {IF g = 0 THEN m ELSE [i \in 1..3 |-> [j \in 1..3 |-> m[i][j] \div g]] :
            g \in {GCD(GCD(GCD(m[1][1], m[1][2]), GCD(m[1][3], m[2][1])),
                       GCD(GCD(m[2][2], m[2][3]),
                           GCD(GCD(m[3][1], m[3][2]), m[3][3])))}} : TRUE

MatMul(a, b) ==
    [i \in 1..3 |-> [j \in 1..3 |->
        a[i][1] * b[1][j] + a[i][2] * b[2][j] + a[i][3] * b[3][j]]]

Outer(u, v) == [i \in 1..3 |-> [j \in 1..3 |-> u[i] * v[j]]]

(***************************************************************************)
(* cv2.getPerspectiveTransform(src, dst) solves the 8x8 linear system for   *)
(* the eight coefficients of the matrix whose ninth entry is fixed to 1     *)
(* (cv::solve, LU); when the system is singular cv::solve stores zeros, so  *)
(* the result is [[0,0,0],[0,0,0],[0,0,1]].                                 *)
(*                                                                          *)
(* A matrix is held as integers m with m[3][3] > 0 and gcd of the entries   *)
(* 1; it stands for the rational matrix m / m[3][3].                        *)
(***************************************************************************)
SingularResult == <<<<0, 0, 0>>, <<0, 0, 0>>, <<0, 0, 1>>>>

(* The solution with ninth entry 1 of the homogeneous solution h, if any. *)
NormalizeM22(h) ==
    IF h[3][3] = 0 THEN SingularResult
    ELSE CHOOSE r \in
             {[i \in 1..3 |-> [j \in 1..3 |->
                  IF p[3][3] < 0 THEN -p[i][j] ELSE p[i][j]]] :
                 p \in {PrimitiveMatrix(h)}} : TRUE

CollinearTriples(src) ==
    {t \in {<<1, 2, 3>>, <<1, 2, 4>>, <<1, 3, 4>>, <<2, 3, 4>>} :
        Collinear(src[t[1]], src[t[2]], src[t[3]])}

(* dst is in general position (the A4 rectangle).  The 8x8 system has a     *)
(* unique solution exactly when the homogeneous 8x9 system has a one-       *)
(* dimensional solution space whose ninth entry is not zero:                *)
(*  - a repeated source point, or four collinear ones: singular;            *)
(*  - one collinear triple on the line l, fourth point src[o] off it: the   *)
(*    solutions are the multiples of the rank-1 matrix dst[o] * l^T;        *)
(*  - no collinear triple: the multiples of the homography.                 *)
(* The matrix, up to a factor, that sends src[i] to dst[i], four points in  *)
(* general position each.                                                   *)
Homography(src, dst) ==
    CHOOSE r \in
        {MatMul(bd, ad) :
            bd \in {Basis(dst)},
            ad \in {PrimitiveMatrix(a) :
                a \in {Adjugate(bs) : bs \in {Basis(src)}}}} : TRUE

(* The rank-1 matrix dst[o] * l^T, l the line through src[t[1]], src[t[2]]. *)
RankOne(src, dst, t) ==
    CHOOSE r \in
        {Outer(Hom(dst[o]), l) :
            o \in {i \in 1..4 : i \notin {t[1], t[2], t[3]}},
            l \in {Primitive(c) :
                c \in {Cross(Hom(src[t[1]]), Hom(src[t[2]]))}}} : TRUE

getPerspectiveTransform(src, dst) ==
    IF Cardinality({src[i] : i \in 1..4}) < 4 THEN SingularResult
    ELSE CHOOSE r \in
        {NormalizeM22(h) :
            h \in {IF triples = {} THEN Homography(src, dst)
                   ELSE IF Cardinality(triples) > 1 THEN SingularResult
                   ELSE RankOne(src, dst, CHOOSE t \in triples : TRUE) :
                       triples \in {CollinearTriples(src)}}} : TRUE

(***************************************************************************)
(* cv2.perspectiveTransform: (x, y) -> (X/w, Y/w) with (X, Y, w) = M(x,y,1), *)
(* and (0, 0) when w is zero.  A point is held as <<X, Y, w>> with w > 0    *)
(* and gcd 1.                                                               *)
(***************************************************************************)
(* Variant: the point is taken at its pixel's far corner, (x+1, y+1). *)
TransformPointPixelCorner(p, m) ==
    CHOOSE r \in
        {IF v[3] = 0 THEN <<0, 0, 1>>
         ELSE IF v[3] < 0 THEN <<-v[1], -v[2], -v[3]>>
         ELSE v :
            v \in {Primitive(u) :
                u \in {<<Dot(m[1], q), Dot(m[2], q), Dot(m[3], q)>> :
                    q \in {<<p[1] + 1, p[2] + 1, 1>>}}}} : TRUE

TransformPoint(p, m) ==
    CHOOSE r \in
        {IF v[3] = 0 THEN <<0, 0, 1>>
         ELSE IF v[3] < 0 THEN <<-v[1], -v[2], -v[3]>>
         ELSE v :
            v \in {Primitive(u) :
                u \in {<<Dot(m[1], Hom(p)), Dot(m[2], Hom(p)), Dot(m[3], Hom(p))>>}}} :
        TRUE

perspectiveTransform(pts, m) == [i \in 1..Len(pts) |-> TransformPoint(pts[i], m)]

(***************************************************************************)
(* cv2.contourArea (not oriented): |sum over the cycle of                   *)
(* prev.x * p.y - prev.y * p.x| / 2, starting with prev = the last point.   *)
(***************************************************************************)
CrossTerm(p, q) == Frac(p[1] * q[2] - p[2] * q[1], p[3] * q[3])

RECURSIVE ShoelaceFrom(_, _, _)
ShoelaceFrom(poly, i, acc) ==
    IF i > Len(poly) THEN acc
    ELSE ShoelaceFrom(poly, i + 1,
             FracAdd(acc, CrossTerm(poly[IF i = 1 THEN Len(poly) ELSE i - 1], poly[i])))

(* Variant: the shoelace sum without its factor 1/2. *)
contourAreaNoHalf(poly) ==
    CHOOSE r \in {Frac(Abs(a00[1]), a00[2]) :
                     a00 \in {ShoelaceFrom(poly, 1, <<0, 1>>)}} : TRUE

contourArea(poly) ==
    CHOOSE r \in {Frac(Abs(a00[1]), 2 * a00[2]) :
                     a00 \in {ShoelaceFrom(poly, 1, <<0, 1>>)}} : TRUE

(* dst_pts of calculate_real_area, in millimetres. *)
A4Width == 210
A4Height == 297

(* Variant: the height typed as 279. *)
dst_pts_transposed == <<<<0, 0>>, <<A4Width, 0>>, <<A4Width, 279>>, <<0, 279>>>>

dst_pts == <<<<0, 0>>, <<A4Width, 0>>, <<A4Width, A4Height>>, <<0, A4Height>>>>

(* calculate_real_area as a function of its two arguments. *)
calculate_real_area(paper, floor) ==
    CHOOSE area \in
        {contourArea(poly) :
            poly \in {perspectiveTransform(rect, m) :
                rect \in {order_points(floor)},
                m \in {getPerspectiveTransform(rect, dst_pts) :
                    rect \in {order_points(paper)}}}} : TRUE

(***************************************************************************)
(* Inputs.  data["paper_corners"] and data["floor_corners"] are whatever    *)
(* lists of [x, y] pairs the detector returned: nothing checks their length *)
(* or shape before line 116 passes them on.                                 *)
(***************************************************************************)
Grid == (0..MaxCoord) \X (0..MaxCoord)

Lists(n) == [1..n -> Grid]

(* The smaller grid of the lists that are paired with a sample. *)
PairGrid == (0..PairCoord) \X (0..PairCoord)

Rectangle(x0, y0, w, h) ==
    <<<<x0, y0>>, <<x0 + w, y0>>, <<x0 + w, y0 + h>>, <<x0, y0 + h>>>>

(* The regression fixture of the specification. *)
FixturePaper == <<<<100, 100>>, <<300, 100>>, <<300, 250>>, <<100, 250>>>>

FixtureFloor == <<<<0, 0>>, <<600, 0>>, <<600, 450>>, <<0, 450>>>>

(* Reference sheets: seen square on, and in perspective. *)
PaperSamples ==
    {<<<<1, 1>>, <<2, 1>>, <<2, 2>>, <<1, 2>>>>,
     <<<<1, 0>>, <<2, 0>>, <<3, 2>>, <<0, 2>>>>}

(* Floors: a rectangle, and a trapezoid whose corners tie on x+y and y-x. *)
FloorSamples ==
    {<<<<0, 0>>, <<4, 0>>, <<4, 3>>, <<0, 3>>>>,
     <<<<2, 1>>, <<4, 1>>, <<5, 2>>, <<1, 2>>>>}

(* The corners of the grid: the points of the lists of any length. *)
CornerGrid == {0, MaxCoord} \X {0, MaxCoord}

Unset == <<>>

InitLocals ==
    /\ pc = "order_paper"
    /\ paper_rect = Unset
    /\ floor_rect = Unset
    /\ matrix = Unset
    /\ floor_poly_real = Unset
    /\ area_sq_meters = Unset

(* The same four grid points given as both quadrilaterals. *)
InitSame ==
    /\ paper_pts \in Lists(4)
    /\ floor_pts = paper_pts

(* A list of 1..MaxPoints corner points as the sheet or as the floor. *)
InitCounts ==
    \E n \in 1..MaxPoints : \E l \in [1..n -> CornerGrid] :
        \/ /\ paper_pts = l
           /\ floor_pts \in FloorSamples
        \/ /\ paper_pts \in PaperSamples
           /\ floor_pts = l

(* A W x H rectangle at the pixel origin and the floor k times as large. *)
InitRoundTrip ==
    \E W \in 1..MaxDim, H \in 1..MaxDim, k \in 1..MaxScale :
        /\ paper_pts = Rectangle(0, 0, W, H)
        /\ floor_pts = Rectangle(0, 0, k * W, k * H)

InitFixture ==
    /\ paper_pts = FixturePaper
    /\ floor_pts = FixtureFloor

(* Any four points of the smaller grid against the sample floors, and the   *)
(* sample sheets against any four points of the smaller grid.               *)
InitPairs ==
    \/ /\ paper_pts \in [1..4 -> PairGrid]
       /\ floor_pts \in FloorSamples
    \/ /\ paper_pts \in PaperSamples
       /\ floor_pts \in [1..4 -> PairGrid]

Init ==
    /\ InitLocals
    /\ \/ InitSame
       \/ InitCounts
       \/ InitRoundTrip
       \/ InitFixture
       \/ InitPairs

(***************************************************************************)
(* calculate_real_area, one action per statement.                           *)
(***************************************************************************)
(* line 30 *)
OrderPaper ==
    /\ pc = "order_paper"
    /\ paper_rect' = order_points(paper_pts)
    /\ pc' = "order_floor"
    /\ UNCHANGED <<paper_pts, floor_pts, floor_rect, matrix, floor_poly_real,
                   area_sq_meters>>

(* line 31 *)
OrderFloor ==
    /\ pc = "order_floor"
    /\ floor_rect' = order_points(floor_pts)
    /\ pc' = "get_transform"
    /\ UNCHANGED <<paper_pts, floor_pts, paper_rect, matrix, floor_poly_real,
                   area_sq_meters>>

(* lines 36-44 *)
GetPerspectiveTransform ==
    /\ pc = "get_transform"
    /\ matrix' = getPerspectiveTransform(paper_rect, dst_pts)
    /\ pc' = "transform"
    /\ UNCHANGED <<paper_pts, floor_pts, paper_rect, floor_rect, floor_poly_real,
                   area_sq_meters>>

(* line 48 *)
PerspectiveTransform ==
    /\ pc = "transform"
    /\ floor_poly_real' = perspectiveTransform(floor_rect, matrix)
    /\ pc' = "contour_area"
    /\ UNCHANGED <<paper_pts, floor_pts, paper_rect, floor_rect, matrix,
                   area_sq_meters>>

(* lines 51-53 *)
ContourArea ==
    /\ pc = "contour_area"
    /\ area_sq_meters' = contourArea(floor_poly_real)
    /\ pc' = "done"
    /\ UNCHANGED <<paper_pts, floor_pts, paper_rect, floor_rect, matrix,
                   floor_poly_real>>

Next ==
    \/ OrderPaper
    \/ OrderFloor
    \/ GetPerspectiveTransform
    \/ PerspectiveTransform
    \/ ContourArea

Spec == Init /\ [][Next]_vars

(***************************************************************************)
(* Vocabulary of the properties.                                            *)
(***************************************************************************)
Range(l) == {l[i] : i \in DOMAIN l}

Count(l, p) == Cardinality({i \in DOMAIN l : l[i] = p})

S(p) == p[1] + p[2]

D(p) == p[2] - p[1]

PaperOrdered == pc # "order_paper"

FloorOrdered == pc \notin {"order_paper", "order_floor"}

TransformComputed == pc \in {"transform", "contour_area", "done"}

Done == pc = "done"

(* The call of order_points that has just returned, as <<argument, result>>: *)
(* line 30 on the way to line 31, line 31 on the way to line 36.            *)
ReturnedCalls ==
    IF pc = "order_floor" THEN {<<paper_pts, paper_rect>>}
    ELSE IF pc = "get_transform" THEN {<<floor_pts, floor_rect>>}
    ELSE {}

(* The least index at which v is minimal, resp. maximal. *)
EarliestMin(v) ==
    CHOOSE i \in 1..Len(v) : /\ \A j \in 1..Len(v) : v[i] <= v[j]
                             /\ \A j \in 1..(i - 1) : v[j] # v[i]

EarliestMax(v) ==
    CHOOSE i \in 1..Len(v) : /\ \A j \in 1..Len(v) : v[i] >= v[j]
                             /\ \A j \in 1..(i - 1) : v[j] # v[i]

(* The indices of the first minimum of x+y, the first minimum of y-x, the   *)
(* first maximum of x+y and the first maximum of y-x.                       *)
ExtremumIndices(pts) ==
    CHOOSE idx \in
        {<<EarliestMin(s), EarliestMin(d), EarliestMax(s), EarliestMax(d)>> :
            s \in {[i \in 1..Len(pts) |-> S(pts[i])]},
            d \in {[i \in 1..Len(pts) |-> D(pts[i])]}} : TRUE

IndicesDistinct(idx) == Cardinality(Range(idx)) = 4

SameMultiset(a, b) ==
    /\ Len(a) = Len(b)
    /\ \A p \in Range(a) \cup Range(b) : Count(a, p) = Count(b, p)

RepeatsAndOmits(pts, rect) ==
    /\ \E p \in Range(pts) : Count(rect, p) >= 2
    /\ \E q \in Range(pts) : q \notin Range(rect)

NonDegenerate(q) ==
    /\ Cardinality(Range(q)) = 4
    /\ CollinearTriples(q) = {}

ScalePoints(l, c) == [i \in DOMAIN l |-> <<c * l[i][1], c * l[i][2]>>]

(* The list l started at its (i+1)-th point, same cyclic order. *)
Rotate(l, i) == [k \in DOMAIN l |-> l[((k - 1 + i) % Len(l)) + 1]]

A4Area == <<A4Width * A4Height, 1>>

(***************************************************************************)
(* C1.  For an input of exactly 4 points, order_points returns 4 points:    *)
(* position 0 is an input point of minimum x+y, position 2 an input point   *)
(* of maximum x+y, position 1 an input point of minimum y-x and position 3  *)
(* an input point of maximum y-x; hence s(out[0]) <= s(out[2]) and          *)
(* d(out[1]) <= d(out[3]).                                                  *)
(***************************************************************************)
C1_OrderPointsExtrema ==
    \A call \in ReturnedCalls :
        LET pts == call[1]
            rect == call[2]
        IN  Len(pts) = 4 =>
                /\ Len(rect) = 4
                /\ \A k \in 1..4 : rect[k] \in Range(pts)
                /\ \A j \in 1..4 : /\ S(rect[1]) <= S(pts[j])
                                   /\ S(rect[3]) >= S(pts[j])
                                   /\ D(rect[2]) <= D(pts[j])
                                   /\ D(rect[4]) >= D(pts[j])
                /\ S(rect[1]) <= S(rect[3])
                /\ D(rect[2]) <= D(rect[4])

(* A four-point list that order_points has put into a different order. *)
C1_Witness ==
    /\ FloorOrdered
    /\ Len(floor_pts) = 4
    /\ NonDegenerate(floor_rect)
    /\ floor_rect # floor_pts
    /\ D(floor_rect[2]) < D(floor_rect[4])

(***************************************************************************)
(* C2.  order_points is idempotent: for every 4-point input P, ties on x+y  *)
(* or y-x included, order_points(order_points(P)) = order_points(P).        *)
(***************************************************************************)
C2_Idempotent ==
    \A call \in ReturnedCalls :
        Len(call[1]) = 4 => order_points(call[2]) = call[2]

(***************************************************************************)
(* C3.  When either quadrilateral has a number of points other than 4, the  *)
(* computation ends in an error and produces no area.                       *)
(***************************************************************************)
C3_WrongCountProducesNoArea ==
    (Len(paper_pts) # 4 \/ Len(floor_pts) # 4) => area_sq_meters = Unset

(***************************************************************************)
(* C4.  When three or more of the four reference points are collinear, or   *)
(* the ordered reference corners are otherwise rank-deficient (a repeated   *)
(* corner included), the computation ends in an error and never returns an  *)
(* area.                                                                    *)
(***************************************************************************)
C4_DegenerateReferenceProducesNoArea ==
    (PaperOrdered /\ Len(paper_pts) = 4 /\ ~NonDegenerate(paper_rect))
        => area_sq_meters = Unset

(***************************************************************************)
(* C5.  Round trip: with the reference corners (0,0),(W,0),(W,H),(0,H) and  *)
(* the floor corners (0,0),(kW,0),(kW,kH),(0,kH), the area is               *)
(* k^2 * 210 * 297 square millimetres.                                      *)
(***************************************************************************)
C5_RoundTrip ==
    \A W \in 1..MaxDim, H \in 1..MaxDim, k \in 1..MaxScale :
        (/\ Done
         /\ paper_pts = Rectangle(0, 0, W, H)
         /\ floor_pts = Rectangle(0, 0, k * W, k * H))
            => area_sq_meters = <<k * k * A4Width * A4Height, 1>>

(* A finished round trip of a non-square sheet with k > 1. *)
C5_Witness ==
    \E W \in 1..MaxDim, H \in 1..MaxDim, k \in 2..MaxScale :
        /\ Done
        /\ W # H
        /\ paper_pts = Rectangle(0, 0, W, H)
        /\ floor_pts = Rectangle(0, 0, k * W, k * H)
        /\ area_sq_meters[1] > A4Width * A4Height

(***************************************************************************)
(* C6.  Regression fixture: paper (100,100),(300,100),(300,250),(100,250)   *)
(* and floor (0,0),(600,0),(600,450),(0,450) give 561330 square             *)
(* millimetres, 9 * 0.06237 m^2.                                            *)
(***************************************************************************)
C6_Fixture ==
    (Done /\ paper_pts = FixturePaper /\ floor_pts = FixtureFloor)
        => area_sq_meters = <<561330, 1>>

C6_Witness ==
    /\ Done
    /\ paper_pts = FixturePaper
    /\ floor_pts = FixtureFloor
    /\ floor_poly_real = <<<<-105, -198, 1>>, <<525, -198, 1>>,
                           <<525, 693, 1>>, <<-105, 693, 1>>>>

(***************************************************************************)
(* C7.  Scale invariance: multiplying every pixel coordinate of both        *)
(* quadrilaterals by a positive constant c leaves the area unchanged.       *)
(***************************************************************************)
C7_ScaleInvariant ==
    Done => \A c \in 2..MaxScale :
        calculate_real_area(ScalePoints(paper_pts, c), ScalePoints(floor_pts, c))
            = area_sq_meters

(* A finished computation through a transform with a perspective part and  *)
(* a floor that is not the sheet.                                           *)
C7_Witness ==
    /\ Done
    /\ (matrix[3][1] # 0 \/ matrix[3][2] # 0)
    /\ area_sq_meters[1] > 0
    /\ area_sq_meters # A4Area

(***************************************************************************)
(* C8.  Starting-corner invariance: cyclically rotating the list of the     *)
(* paper corners and/or of the floor corners leaves the area unchanged,     *)
(* also when two points of a quadrilateral tie on x+y or on y-x.            *)
(***************************************************************************)
C8_StartingCornerInvariant ==
    (Done /\ Len(paper_pts) = 4 /\ Len(floor_pts) = 4) =>
        \A i \in 0..3, j \in 0..3 :
            calculate_real_area(Rotate(paper_pts, i), Rotate(floor_pts, j))
                = area_sq_meters

(***************************************************************************)
(* C9.  The transform sends the ordered reference corners exactly to        *)
(* (0,0), (210,0), (210,297), (0,297); so for every paper quadrilateral     *)
(* whose ordered corners are pairwise distinct and non-degenerate, giving   *)
(* the same quadrilateral as the floor yields exactly 210 * 297.            *)
(***************************************************************************)
C9_ReferenceMapsToA4 ==
    (Len(paper_pts) = 4 /\ PaperOrdered /\ NonDegenerate(paper_rect)) =>
        /\ TransformComputed =>
              perspectiveTransform(paper_rect, matrix)
                  = [k \in 1..4 |-> <<dst_pts[k][1], dst_pts[k][2], 1>>]
        /\ (Done /\ floor_pts = paper_pts) => area_sq_meters = A4Area

(***************************************************************************)
(* C10.  Every point of the order_points output is an input point, ties     *)
(* going to the earliest input index; the output is a permutation of a      *)
(* 4-point input exactly when the four extremum indices are pairwise        *)
(* distinct, and otherwise it repeats one input point and omits another.    *)
(***************************************************************************)
C10_Original ==
    \A call \in ReturnedCalls :
        LET pts == call[1]
            rect == call[2]
        IN  \A idx \in {ExtremumIndices(pts)} :
                /\ rect = [k \in 1..4 |-> pts[idx[k]]]
                /\ Len(pts) = 4 =>
                      /\ SameMultiset(rect, pts) <=> IndicesDistinct(idx)
                      /\ ~IndicesDistinct(idx) => RepeatsAndOmits(pts, rect)

(* C10 as amended: the second half for 4-point inputs whose points are      *)
(* pairwise distinct.                                                       *)
C10_SelectsEarliestExtrema ==
    \A call \in ReturnedCalls :
        LET pts == call[1]
            rect == call[2]
        IN  \A idx \in {ExtremumIndices(pts)} :
                /\ rect = [k \in 1..4 |-> pts[idx[k]]]
                /\ (Len(pts) = 4 /\ Cardinality(Range(pts)) = 4) =>
                      /\ SameMultiset(rect, pts) <=> IndicesDistinct(idx)
                      /\ ~IndicesDistinct(idx) => RepeatsAndOmits(pts, rect)

(* Four distinct points with a tie: the output repeats one of them. *)
C10_Witness ==
    /\ PaperOrdered
    /\ Len(paper_pts) = 4
    /\ Cardinality(Range(paper_pts)) = 4
    /\ Cardinality(Range(paper_rect)) = 3
    /\ \E i \in 1..4, j \in 1..4 : i < j /\ S(paper_pts[i]) = S(paper_pts[j])

====
